---- MODULE Spec2Model ----
(***************************************************************************)
(* The Euro problem (02_euro.ipynb): grid-approximation Bayesian update of *)
(* a PMF over the probability of heads, and the summaries of a posterior   *)
(* (idxmax, pmf_mean, credible_interval).                                  *)
(*                                                                         *)
(* A pandas Series over the grid xs is a sequence of masses, one per grid  *)
(* point.  A mass is an exact rational <<n, d>> in lowest terms (d > 0);   *)
(* the non-finite values of float arithmetic are <<0, 0>> (nan, the result *)
(* of 0/0) and <<1, 0>>, <<-1, 0>> (inf, -inf).  Rounding of the float     *)
(* mantissa and underflow of the float exponent are not modelled.          *)
(*                                                                         *)
(* The Series objects live in a heap: a name such as prior, triangle or    *)
(* posterior1 is an index into it.  `a = b * c` allocates a new object;    *)
(* `a /= a.sum()` changes the object a names in place.                     *)
(***************************************************************************)
EXTENDS Integers, Sequences, FiniteSets

VARIABLES heap, last

vars == <<heap, last>>

\* ---------------------------------------------------------------- bounds
\* number of grid points (np.linspace(0, 1, num=101) in the notebook)
GridN == 4
\* largest integer weight of a Series handed to the summary functions
MaxW == 2
\* total number of coin tosses observed over all updates of a behaviour
MaxTosses == 3
\* largest number of (label, count) outcomes multiplied in one update
MaxBatch == 2

\* ---------------------------------------------------- float arithmetic
NaN == <<0, 0>>

Zero == <<0, 1>>

One == <<1, 1>>

Abs(n) == IF n < 0 THEN -n ELSE n

Sign(n) == IF n < 0 THEN -1 ELSE IF n > 0 THEN 1 ELSE 0

RECURSIVE GCD(_, _)
GCD(a, b) == IF b = 0 THEN a ELSE GCD(b, a % b)

LCM(a, b) == (a \div GCD(a, b)) * b

\* the rational n/d (d > 0) in lowest terms
R(n, d) == LET g == GCD(Abs(n), d) IN <<n \div g, d \div g>>

IsNaN(a) == a = NaN

IsFinite(a) == a[2] # 0

\* a + b; inf + -inf and anything + nan are nan
RAdd(a, b) ==
    IF a[2] = 0 /\ b[2] = 0 THEN (IF a = b THEN a ELSE NaN)
    ELSE IF a[2] = 0 THEN a
    ELSE IF b[2] = 0 THEN b
    ELSE LET l == LCM(a[2], b[2])
         IN  R(a[1] * (l \div a[2]) + b[1] * (l \div b[2]), l)

RNeg(a) == <<-a[1], a[2]>>

RSub(a, b) == RAdd(a, RNeg(b))

\* a * b; inf * 0 and anything * nan are nan
RMul(a, b) ==
    IF a[2] = 0 \/ b[2] = 0 THEN <<Sign(a[1]) * Sign(b[1]), 0>>
    ELSE LET g1 == GCD(Abs(a[1]), b[2])
             g2 == GCD(Abs(b[1]), a[2])
         IN  R((a[1] \div g1) * (b[1] \div g2), (a[2] \div g2) * (b[2] \div g1))

\* a / b; 0/0 is nan, x/0 is inf
RDiv(a, b) ==
    IF b[2] = 0 THEN (IF a[2] = 0 \/ IsNaN(b) THEN NaN ELSE Zero)
    ELSE IF a[2] = 0 THEN <<a[1] * (IF b[1] < 0 THEN -1 ELSE 1), 0>>
    ELSE IF b[1] = 0 THEN <<Sign(a[1]), 0>>
    ELSE RMul(a, <<Sign(b[1]) * b[2], Abs(b[1])>>)

\* a < b; every comparison with nan is false
RLess(a, b) == ~IsNaN(a) /\ ~IsNaN(b) /\ a[1] * b[2] < b[1] * a[2]

RLeq(a, b) == ~IsNaN(a) /\ ~IsNaN(b) /\ a[1] * b[2] <= b[1] * a[2]

\* a ** k for an integer k >= 0
RECURSIVE RPow(_, _)
RPow(a, k) == IF k = 0 THEN One ELSE RMul(a, RPow(a, k - 1))

\* ------------------------------------------------------- Series on xs
Idx == 1..GridN

\* xs = np.linspace(0, 1, num=GridN)
xs == [i \in Idx |-> R(i - 1, GridN - 1)]

\* an array of GridN floats, computed element by element
RECURSIVE ArrayTo(_, _)
ArrayTo(f, k) == IF k = 0 THEN <<>> ELSE Append(ArrayTo(f, k - 1), f[k])

Array(f) == ArrayTo(f, GridN)

\* pd.Series(ps, xs)
Series(ps) == Array([i \in Idx |-> R(ps[i], 1)])

\* a faulty SMul: the likelihood is added to the prior, not multiplied
SMulAdds(a, b) == Array([i \in Idx |-> RAdd(a[i], b[i])])

\* elementwise a * b
SMul(a, b) == Array([i \in Idx |-> RMul(a[i], b[i])])

\* elementwise a ** k
SPow(a, k) == Array([i \in Idx |-> RPow(a[i], k)])

\* elementwise a / t for a scalar t
SDiv(a, t) == Array([i \in Idx |-> RDiv(a[i], t)])

\* Series.sum() (skipna=True): the sum of the masses that are not nan
RECURSIVE SumTo(_, _)
SumTo(a, k) ==
    IF k = 0 THEN Zero
    ELSE IF IsNaN(a[k]) THEN SumTo(a, k - 1)
    ELSE RAdd(SumTo(a, k - 1), a[k])

Sum(a) == SumTo(a, GridN)

\* a faulty Normalize: the division by the total is left out
NormalizeSkipped(a) == a

\* pmf /= pmf.sum()
Normalize(a) == SDiv(a, Sum(a))

\* ------------------------------------------------ priors, likelihoods
\* prior = pd.Series(1/GridN, index=xs)
prior == [i \in Idx |-> R(1, GridN)]

\* ramp_up = np.arange(50): 0 .. GridN \div 2 - 1
ramp_up == [i \in 1..(GridN \div 2) |-> i - 1]

\* ramp_down = np.arange(50, -1, -1): GridN - GridN \div 2 - 1 down to 0
ramp_down == [i \in 1..(GridN - GridN \div 2) |-> (GridN - GridN \div 2) - i]

\* ps = np.append(ramp_up, ramp_down)
TrianglePs == ramp_up \o ramp_down

\* the weights the second prior is built from: the triangle, or all the
\* weight on one grid point
PriorWeights ==
    {TrianglePs} \cup {[i \in Idx |-> IF i = k THEN 1 ELSE 0] : k \in Idx}

\* the weights of a Series handed to the summary functions
Weights == {TrianglePs} \cup {w \in [Idx -> 0..MaxW] : \E i \in Idx : w[i] > 0}

likelihood_heads == xs

likelihood_tails == [i \in Idx |-> RSub(One, xs[i])]

Labels == {"heads", "tails"}

Likelihood(label) ==
    IF label = "heads" THEN likelihood_heads ELSE likelihood_tails

Outcome(maxCount) == [label : Labels, count : 1..maxCount]

RECURSIVE Tosses(_)
Tosses(outs) == IF outs = <<>> THEN 0 ELSE outs[1].count + Tosses(Tail(outs))

\* the outcome sequences of one update that toss the coin at most rem times
Batches(rem) ==
    {outs \in UNION {[1..n -> Outcome(rem)] : n \in 1..MaxBatch} :
        Tosses(outs) <= rem}

\* a faulty Product: (prior * likelihood) ** count: the exponent is
\* applied to the running product instead of to the likelihood
RECURSIVE ProductPowerOfAcc(_, _)
ProductPowerOfAcc(pmf, outs) ==
    IF outs = <<>> THEN pmf
    ELSE ProductPowerOfAcc(
             SPow(SMul(pmf, Likelihood(outs[1].label)), outs[1].count),
             Tail(outs))

\* prior * likelihood[o1]**c1 * likelihood[o2]**c2 * ..., left to right
RECURSIVE Product(_, _)
Product(pmf, outs) ==
    IF outs = <<>> THEN pmf
    ELSE Product(SMul(pmf, SPow(Likelihood(outs[1].label), outs[1].count)),
                 Tail(outs))

\* ------------------------------------------------------------- heap
\* A heap object: its masses, and where it came from (src = 0: built from
\* weights; else the heap index of the Series the update multiplied, with
\* the outcomes of that update).
Obj(mass, src, outs) == [mass |-> mass, src |-> src, outs |-> outs]

\* the last operation: its name, the heap index and prob it was given, the
\* value it returned and the exception it raised
NoOp == [op |-> "none", pmf |-> 0, prob |-> Zero, value |-> <<>>, err |-> "none"]

\* the prior a heap object descends from
RECURSIVE Root(_, _)
Root(h, k) == IF h[k].src = 0 THEN k ELSE Root(h, h[k].src)

\* a faulty UpdateHeap: posterior = pmf; posterior *= ...: the name is
\* bound to the Series being updated, which the update then changes
UpdateHeapInPlace(h, src, outs) ==
    LET post == Normalize(Product(h[src].mass, outs))
    IN  Append([h EXCEPT ![src].mass = post], Obj(post, src, outs))

\* a faulty UpdateHeap: the update multiplies the original prior again
\* instead of the posterior it was given
UpdateHeapFromRoot(h, src, outs) ==
    Append(h, Obj(Normalize(Product(h[Root(h, src)].mass, outs)), src, outs))

\* posterior = pmf * ...;  posterior /= posterior.sum()
\* The product is a new Series; the division changes that new Series.
UpdateHeap(h, src, outs) ==
    LET new == Len(h) + 1
        h1  == Append(h, Obj(Product(h[src].mass, outs), src, outs))
    IN  [h1 EXCEPT ![new].mass = Normalize(h1[new].mass)]

RECURSIVE UsedTosses(_, _)
UsedTosses(h, k) ==
    IF k = 0 THEN 0 ELSE Tosses(h[k].outs) + UsedTosses(h, k - 1)

\* ---------------------------------------------------- the update engine
\* the notebook after the cells that build prior and triangle
Init ==
    /\ \E ps \in PriorWeights :
         heap = <<Obj(prior, 0, <<>>), Obj(Normalize(Series(ps)), 0, <<>>)>>
    /\ last = NoOp

Update(src, outs) ==
    /\ heap' = UpdateHeap(heap, src, outs)
    /\ last' = [NoOp EXCEPT !.op = "update", !.pmf = src]

Next ==
    \E src \in 1..Len(heap) :
       \E outs \in Batches(MaxTosses - UsedTosses(heap, Len(heap))) :
          Update(src, outs)

Spec == Init /\ [][Next]_vars

\* ------------------------------------------------ summary statistics
\* a faulty ArgMax: a later equal mass replaces the earlier one
RECURSIVE ArgMaxLast(_, _)
ArgMaxLast(a, k) ==
    IF k = 1 THEN 1
    ELSE LET b == ArgMaxLast(a, k - 1)
         IN  IF RLeq(a[b], a[k]) \/ (IsNaN(a[b]) /\ ~IsNaN(a[k])) THEN k ELSE b

\* the first index among 1..k that holds the largest mass that is not nan
RECURSIVE ArgMax(_, _)
ArgMax(a, k) ==
    IF k = 1 THEN 1
    ELSE LET b == ArgMax(a, k - 1)
         IN  IF RLess(a[b], a[k]) \/ (IsNaN(a[b]) /\ ~IsNaN(a[k])) THEN k ELSE b

\* pmf.idxmax(): the label (grid value) of the first occurrence of the maximum
idxmax(pmf) ==
    IF \A i \in Idx : IsNaN(pmf[i]) THEN NaN ELSE xs[ArgMax(pmf, GridN)]

\* np.sum(pmf.index * pmf)
pmf_mean(pmf) == Sum(SMul(xs, pmf))

\* pmf.cumsum() (skipna=True): the running sum; a nan mass stays nan
RECURSIVE CumTo(_, _)
CumTo(pmf, k) ==
    IF k = 0 THEN <<>>
    ELSE Append(CumTo(pmf, k - 1),
                IF IsNaN(pmf[k]) THEN NaN ELSE SumTo(pmf, k))

cumsum(pmf) == CumTo(pmf, GridN)

\* fill_value=(xs[0], xs[-1])
FillBelow == xs[1]

FillAbove == xs[GridN]

\* the last index j of the sorted ys with ys[j] <= q (0: none)
RECURSIVE LastLeq(_, _, _)
LastLeq(ys, q, k) ==
    IF k = 0 THEN 0
    ELSE IF RLeq(ys[k], q) THEN k
    ELSE LastLeq(ys, q, k - 1)

\* a faulty interp1d: fill_value is left out: nan outside [ys[0], ys[-1]]
interp1dNoFill(ys, q) ==
    IF \E i \in Idx : IsNaN(ys[i]) THEN NaN
    ELSE IF RLess(q, ys[1]) \/ RLess(ys[GridN], q) THEN NaN
    ELSE LET j == LastLeq(ys, q, GridN)
         IN  IF j = GridN \/ ys[j] = q THEN xs[j]
             ELSE RAdd(xs[j],
                       RMul(RDiv(RSub(xs[j + 1], xs[j]), RSub(ys[j + 1], ys[j])),
                            RSub(q, ys[j])))

\* a faulty interp1d: kind='previous': the grid value at or before q,
\* with no interpolation
interp1dPrevious(ys, q) ==
    IF \E i \in Idx : IsNaN(ys[i]) THEN NaN
    ELSE IF RLess(q, ys[1]) THEN FillBelow
    ELSE IF RLess(ys[GridN], q) THEN FillAbove
    ELSE xs[LastLeq(ys, q, GridN)]

\* interp1d(ys, xs, bounds_error=False, fill_value=..., assume_sorted=True)(q):
\* linear interpolation of the points (ys[j], xs[j]), and the fill values
\* for a q below ys[0] or above ys[-1]
interp1d(ys, q) ==
    IF \E i \in Idx : IsNaN(ys[i]) THEN NaN
    ELSE IF RLess(q, ys[1]) THEN FillBelow
    ELSE IF RLess(ys[GridN], q) THEN FillAbove
    ELSE LET j == LastLeq(ys, q, GridN)
         IN  IF j = GridN \/ ys[j] = q THEN xs[j]
             ELSE RAdd(xs[j],
                       RMul(RDiv(RSub(xs[j + 1], xs[j]), RSub(ys[j + 1], ys[j])),
                            RSub(q, ys[j])))

\* p = (1-prob)/2
LowerTarget(prob) == RDiv(RSub(One, prob), R(2, 1))

\* ps = [p, 1-p];  return interp(ps)
credible_interval(pmf, prob) ==
    LET ys == cumsum(pmf)
        p  == LowerTarget(prob)
    IN  <<interp1d(ys, p), interp1d(ys, RSub(One, p))>>

\* the probabilities credible_interval is called with, 0.9 and both ends of
\* (0, 1) among them: -0.2, 0, 0.2, 0.5, 0.8, 0.9, 1, 1.2
Probs == {R(k, 10) : k \in {-2, 0, 2, 5, 8, 9, 10, 12}}

\* a Series built from weights, before it is normalized
InitStats ==
    /\ \E ps \in Weights : heap = <<Obj(Series(ps), 0, <<>>)>>
    /\ last = NoOp

\* triangle /= triangle.sum(): changes the Series in place
NormalizeInPlace(id) ==
    /\ heap' = [heap EXCEPT ![id].mass = Normalize(heap[id].mass)]
    /\ last' = [NoOp EXCEPT !.op = "normalize", !.pmf = id]

MapEstimate(id) ==
    /\ last' = [NoOp EXCEPT !.op = "idxmax", !.pmf = id,
                            !.value = <<idxmax(heap[id].mass)>>]
    /\ UNCHANGED heap

Mean(id) ==
    /\ last' = [NoOp EXCEPT !.op = "pmf_mean", !.pmf = id,
                            !.value = <<pmf_mean(heap[id].mass)>>]
    /\ UNCHANGED heap

CredibleInterval(id, prob) ==
    /\ last' = [NoOp EXCEPT !.op = "credible_interval", !.pmf = id,
                            !.prob = prob,
                            !.value = credible_interval(heap[id].mass, prob)]
    /\ UNCHANGED heap

NextStats ==
    \/ \E id \in 1..Len(heap) : NormalizeInPlace(id)
    \/ \E id \in 1..Len(heap) : MapEstimate(id)
    \/ \E id \in 1..Len(heap) : Mean(id)
    \/ \E id \in 1..Len(heap), prob \in Probs : CredibleInterval(id, prob)

SpecStats == InitStats /\ [][NextStats]_vars

\* =====================================================================
\* Properties of the update engine (Spec)

\* the outcomes multiplied into heap object k since its prior, oldest first
RECURSIVE Hist(_, _)
Hist(h, k) == IF h[k].src = 0 THEN <<>> ELSE Hist(h, h[k].src) \o h[k].outs

\* the permutations of 1..n
Perms(n) == {f \in [1..n -> 1..n] : \A i, j \in 1..n : f[i] = f[j] => i = j}

\* the heap objects an update made
Posteriors == {k \in 1..Len(heap) : heap[k].src # 0}

Defined(pmf) == \A i \in Idx : IsFinite(pmf[i])

AllZero(pmf) == \A i \in Idx : pmf[i] = Zero

\* the second prior is the triangle prior
IsTriangle == heap[2].mass = Normalize(Series(TrianglePs))

\* C1: an update with the outcomes of a posterior taken in any other order,
\* from the same prior, gives the same mass at every grid point.
C1_UpdateCommutes ==
    \A k \in Posteriors :
       \A f \in Perms(Len(heap[k].outs)) :
          Normalize(Product(heap[heap[k].src].mass,
                            [i \in 1..Len(heap[k].outs) |-> heap[k].outs[f[i]]]))
             = heap[k].mass

\* C1 witness: a posterior of two different outcomes (heads once, then tails
\* twice) with defined masses.
C1_Witness ==
    \E k \in Posteriors :
       /\ Len(heap[k].outs) = 2
       /\ heap[k].outs[1] = [label |-> "heads", count |-> 1]
       /\ heap[k].outs[2] = [label |-> "tails", count |-> 2]
       /\ Defined(heap[k].mass)

C3_PriorNotMutated ==
    [][/\ Len(heap') = Len(heap) + 1
       /\ \A i \in 1..Len(heap) : heap'[i] = heap[i]]_vars

\* C3 witness: the uniform prior updated twice, and a different second prior
\* updated with the same data as the first of these, both priors as they
\* were built.
C3_Witness ==
    \E i, j, k \in Posteriors :
       /\ i # j
       /\ heap[i].src = 1 /\ heap[j].src = 1 /\ heap[k].src = 2
       /\ heap[k].outs = heap[i].outs
       /\ heap[1].mass = prior
       /\ heap[2].mass # prior
       /\ heap[2].mass = Normalize(heap[2].mass)

\* C4 (as claimed): no Series holds an undefined mass, and an update whose
\* product is zero at every grid point fails with DegenerateDistributionError.
C4_DegenerateUpdateFails ==
    /\ \A k \in 1..Len(heap) : \A i \in Idx : ~IsNaN(heap[k].mass[i])
    /\ (/\ last.op = "update"
        /\ AllZero(Product(heap[last.pmf].mass, heap[Len(heap)].outs)))
          => last.err = "DegenerateDistributionError"

RECURSIVE Ancestors(_, _)
Ancestors(h, k) ==
    IF h[k].src = 0 THEN {} ELSE {h[k].src} \cup Ancestors(h, h[k].src)

\* C10: a grid point with zero mass in a Series has zero mass in every
\* defined posterior computed from it.
C10_ZeroMassPermanent ==
    \A k \in Posteriors :
       Defined(heap[k].mass) =>
          \A a \in Ancestors(heap, k) :
             \A i \in Idx : heap[a].mass[i] = Zero => heap[k].mass[i] = Zero

\* C10 witness: x = 0 has mass in the prior, none after an update with
\* heads, and none in a defined posterior of a further update with tails.
C10_Witness ==
    \E k \in Posteriors :
       /\ heap[k].src \in Posteriors
       /\ heap[Root(heap, k)].mass[1] # Zero
       /\ heap[heap[k].src].outs[1].label = "heads"
       /\ heap[heap[k].src].mass[1] = Zero
       /\ heap[k].outs[1].label = "tails"
       /\ Defined(heap[k].mass)
       /\ heap[k].mass[1] = Zero

\* =====================================================================
\* Properties of the summary statistics (SpecStats)

\* the Series the last operation was given
LastPmf == heap[last.pmf].mass

LastLo == last.value[1]

LastHi == last.value[2]

InGrid(x) == IsFinite(x) /\ RLeq(xs[1], x) /\ RLeq(x, xs[GridN])

InUnit(prob) == RLess(Zero, prob) /\ RLess(prob, One)

\* the CDF at a grid-range value x: the cumulative sums ys, joined by straight
\* lines between neighbouring grid points
CdfAt(ys, x) ==
    LET j == LastLeq(xs, x, GridN)
    IN  IF j = GridN THEN ys[GridN]
        ELSE RAdd(ys[j],
                  RMul(RDiv(RSub(x, xs[j]), RSub(xs[j + 1], xs[j])),
                       RSub(ys[j + 1], ys[j])))

\* the cumulative mass between the ends of the returned interval
MassBetween == RSub(CdfAt(cumsum(LastPmf), LastHi), CdfAt(cumsum(LastPmf), LastLo))

\* credible_interval was called on a normalized PMF with 0 < prob < 1
NormalizedCall ==
    /\ last.op = "credible_interval"
    /\ Sum(LastPmf) = One
    /\ InUnit(last.prob)

\* the lower target (1-prob)/2 is below the first cumulative value
ClampedBelow == RLess(LowerTarget(last.prob), cumsum(LastPmf)[1])

\* the upper target 1-(1-prob)/2 is above the last cumulative value
ClampedAbove == RLess(cumsum(LastPmf)[GridN], RSub(One, LowerTarget(last.prob)))

\* C6 (as claimed): for a normalized PMF and 0 < prob < 1, low < high, both
\* in the grid's range, and the cumulative mass between them is prob.
C6_IntervalHoldsProb ==
    NormalizedCall =>
       /\ RLess(LastLo, LastHi)
       /\ InGrid(LastLo) /\ InGrid(LastHi)
       /\ MassBetween = last.prob

\* C6 (amended): the same when the mass at the grid's minimum is at most the
\* lower target (1-prob)/2; when it is more, low is the grid's minimum,
\* low <= high, both are in the grid's range and the cumulative mass between
\* them is less than prob.
C6_IntervalHoldsProbUnclamped ==
    NormalizedCall =>
       /\ InGrid(LastLo) /\ InGrid(LastHi)
       /\ ~ClampedBelow =>
             /\ RLess(LastLo, LastHi)
             /\ MassBetween = last.prob
       /\ ClampedBelow =>
             /\ LastLo = xs[1]
             /\ RLeq(LastLo, LastHi)
             /\ RLess(MassBetween, last.prob)

\* C6 witness: the 90% interval of a normalized PMF with no mass at the
\* grid's minimum, both ends strictly between grid points.
C6_Witness ==
    /\ NormalizedCall
    /\ last.prob = R(9, 10)
    /\ ~ClampedBelow
    /\ \A i \in Idx : LastLo # xs[i] /\ LastHi # xs[i]
    /\ MassBetween = R(9, 10)

\* C7 (as claimed): a call with prob <= 0 or prob >= 1 fails with
\* InvalidArgumentError and returns no interval.
C7_RejectsProbOutsideUnit ==
    (last.op = "credible_interval" /\ ~InUnit(last.prob)) =>
       /\ last.err = "InvalidArgumentError"
       /\ last.value = <<>>

\* C8: idxmax returns a grid value whose mass is the largest of the Series,
\* and every grid value before it has a smaller mass.
C8_FirstMaximum ==
    last.op = "idxmax" =>
       \E k \in Idx :
          /\ last.value = <<xs[k]>>
          /\ \A i \in Idx : RLeq(LastPmf[i], LastPmf[k])
          /\ \A i \in 1..(k - 1) : RLess(LastPmf[i], LastPmf[k])

\* C8 witness: idxmax of an unnormalized Series of equal weights returns
\* the grid's minimum.
C8_Witness ==
    /\ last.op = "idxmax"
    /\ \A i \in Idx : LastPmf[i] = R(MaxW, 1)
    /\ Sum(LastPmf) # One
    /\ last.value = <<xs[1]>>

\* C9: a lower target below the first cumulative value gives the grid's
\* minimum, an upper target above the last cumulative value gives the grid's
\* maximum, and both ends are always defined values in the grid's range.
C9_ClampedToGrid ==
    last.op = "credible_interval" =>
       /\ ClampedBelow => LastLo = xs[1]
       /\ ClampedAbove => LastHi = xs[GridN]
       /\ InGrid(LastLo) /\ InGrid(LastHi)

\* C9 witness: a call where both targets fall outside the cumulative values
\* and the grid's minimum and maximum are returned.
C9_Witness ==
    /\ last.op = "credible_interval"
    /\ ClampedBelow /\ ClampedAbove
    /\ LastLo = xs[1] /\ LastHi = xs[GridN]

====
